---- MODULE Spec2Model ----
(***************************************************************************)
(* Model of the accounts application of RulingoClub: the relational store  *)
(* (User, Tutor, Student, Course, Enrollment), the model save paths with    *)
(* their role validation, the admin classes with their ownership-scoped     *)
(* querysets and save_model overrides, and the two post_save signals that   *)
(* auto-enroll students in demo courses.                                    *)
(***************************************************************************)
EXTENDS Integers, FiniteSets, Sequences, TLC

\* ------------------------------------------------------------------ bounds
MaxUsers == 4
MaxTutors == 2
MaxStudents == 2
MaxCourses == 2
MaxEnrollments == 2
MinPassword == 4

\* --------------------------------------------------------------- constants
SuperUser == 1
None == 0
COURSE_TYPE_CHOICES == {"demo", "level", "custom"}
STATUS_CHOICES == {"active", "completed"}

VARIABLES
    users,        \* set of User ids (auth_user rows)
    auth_user,    \* the username and email of the accounts whose form data
                  \* is followed, rows [id, username, email]
    tutors,       \* set of Tutor rows [id, user]
    students,     \* set of Student rows [id, user, created_by]
    courses,      \* set of Course rows [id, tutor, course_type]
    enrollments,  \* set of Enrollment rows [id, student, course, status]
    seq,          \* the store's auto-increment counters, one per table
    result,       \* what the last operation was and how it ended
    txn,          \* the requests in flight, one per database connection
    readonly_fields  \* the list EnrollmentAdmin.readonly_fields of the
                  \* serving process, as the set of its entries

store == <<users, auth_user, tutors, students, courses, enrollments>>
vars == <<users, auth_user, tutors, students, courses, enrollments, seq, result, txn,
         readonly_fields>>

NoResult == [op |-> "none", outcome |-> "none"]

\* EnrollmentAdmin.readonly_fields as the class statement leaves it.
EnrollmentAdmin_readonly_fields == {"enrolled_at", "completed_at", "updated_at"}

\* ----------------------------------------------------------- store lookups
is_superuser(u) == u = SuperUser

\* hasattr(user, 'tutor') / hasattr(user, 'student'): the reverse one-to-one
\* accessor resolves iff a row with that user exists.
HasTutor(u) == \E t \in tutors : t.user = u
HasStudent(u) == \E s \in students : s.user = u

\* request.user.tutor: the Tutor row of the user, None when the accessor
\* raises Tutor.DoesNotExist.
RequestUserTutor(u) ==
    IF HasTutor(u) THEN (CHOOSE t \in tutors : t.user = u).id ELSE None

TutorRow(id) == CHOOSE t \in tutors : t.id = id
StudentRow(id) == CHOOSE s \in students : s.id = id
CourseRow(id) == CHOOSE c \in courses : c.id = id
EnrollmentRow(id) == CHOOSE e \in enrollments : e.id = id

TutorIds == {t.id : t \in tutors}
StudentIds == {s.id : s \in students}
CourseIds == {c.id : c \in courses}
EnrollmentIds == {e.id : e \in enrollments}

Max(S) == CHOOSE x \in S : \A y \in S : y <= x

\* Two connections serve requests side by side.
Procs == {1, 2}

\* A connection with no request in flight. A request in flight carries its
\* position (pc), whether it runs inside transaction.atomic, the rows it
\* has written and not yet committed, the (student, course) pairs its
\* receiver still has to get_or_create (todo), and, for the record, its
\* primary row, the pairs it has tried, the pairs whose insert the store
\* refused, whether its receiver raised, and the exception that ended it.
Idle ==
    [op |-> "idle", pc |-> "idle", atomic |-> FALSE,
     users |-> {}, students |-> {}, courses |-> {}, enrollments |-> {},
     todo |-> <<>>, row |-> {}, tried |-> {}, refused |-> {},
     raised |-> FALSE, error |-> "none"]

\* ------------------------------------------------------------------- Init
Init ==
    /\ users = {SuperUser}
    /\ auth_user = {}
    /\ tutors = {}
    /\ students = {}
    /\ courses = {}
    /\ enrollments = {}
    /\ seq = [user |-> 2, tutor |-> 1, student |-> 1, course |-> 1, enrollment |-> 1]
    /\ result = NoResult
    /\ txn = [p \in Procs |-> Idle]
    /\ readonly_fields = EnrollmentAdmin_readonly_fields

\* User.objects.create_user(...): a plain (non-superuser) account made by the
\* identity provider.
CreateUser ==
    /\ seq.user <= MaxUsers
    /\ users' = users \cup {seq.user}
    /\ seq' = [seq EXCEPT !.user = @ + 1]
    /\ result' = [op |-> "CreateUser", outcome |-> "ok"]
    /\ UNCHANGED <<tutors, students, courses, enrollments, txn, auth_user, readonly_fields>>

\* ------------------------------------------------------ accounts/models.py
\* Tutor.clean without the Student probe.
Tutor_clean_NoProbe(user) == "ok"

\* Tutor.clean: a User that already is a Student cannot be a Tutor.
Tutor_clean(user) ==
    IF HasStudent(user) THEN "RoleConflict" ELSE "ok"

\* Model.full_clean for a Tutor: clean() and then validate_unique() on the
\* one-to-one user column (the row itself is excluded).
Tutor_full_clean(pk, user) ==
    IF Tutor_clean(user) # "ok" THEN Tutor_clean(user)
    ELSE IF \E t \in tutors : t.user = user /\ t.id # pk THEN "ValidationError"
    ELSE "ok"

\* Tutor.save: full_clean() unconditionally, then the row is written.
Tutor_save_outcome(pk, user) == Tutor_full_clean(pk, user)

\* Student.clean: a User that already is a Tutor cannot be a Student.
Student_clean(user) ==
    IF HasTutor(user) THEN "RoleConflict" ELSE "ok"

Student_full_clean(pk, user) ==
    IF Student_clean(user) # "ok" THEN Student_clean(user)
    ELSE IF \E s \in students : s.user = user /\ s.id # pk THEN "ValidationError"
    ELSE "ok"

\* Student.save: full_clean() only when the instance already has a primary
\* key; the write itself is refused by the store's unique index on user_id.
Student_save_outcome(pk, user) ==
    IF pk # None /\ Student_full_clean(pk, user) # "ok"
        THEN Student_full_clean(pk, user)
    ELSE IF \E s \in students : s.user = user /\ s.id # pk THEN "IntegrityError"
    ELSE "ok"

is_demo(course) == course.course_type = "demo"

\* ----------------------------------------------------- accounts/signals.py
\* The ids of a set of rows, most recent first (Meta.ordering = -created_at).
RECURSIVE MostRecentFirst(_)
MostRecentFirst(ids) ==
    IF ids = {} THEN <<>>
    ELSE <<Max(ids)>> \o MostRecentFirst(ids \ {Max(ids)})

\* get_or_create that inserts without looking first.
get_or_create_AlwaysCreate(enrs, nid, student, course) ==
    [enrollments |-> enrs \cup {[id |-> nid, student |-> student,
                                 course |-> course, status |-> "active"]},
     next |-> nid + 1, raised |-> FALSE]

\* update_or_create in the place of get_or_create: the row found gets the
\* defaults.
get_or_create_ResetStatus(enrs, nid, student, course) ==
    LET found == {e \in enrs : e.student = student /\ e.course = course}
    IN  IF Cardinality(found) > 1
            THEN [enrollments |-> enrs, next |-> nid, raised |-> TRUE]
        ELSE IF found = {}
            THEN [enrollments |-> enrs \cup {[id |-> nid, student |-> student,
                                              course |-> course, status |-> "active"]},
                  next |-> nid + 1, raised |-> FALSE]
        ELSE [enrollments |-> (enrs \ found) \cup
                                  {[e EXCEPT !.status = "active"] : e \in found},
              next |-> nid, raised |-> FALSE]

\* Enrollment.objects.get_or_create(student=, course=, defaults={status:
\* active}) on the table enrs with next free id nid. More than one matching
\* row makes get() raise MultipleObjectsReturned.
get_or_create(enrs, nid, student, course) ==
    LET found == {e \in enrs : e.student = student /\ e.course = course}
    IN  IF Cardinality(found) > 1
            THEN [enrollments |-> enrs, next |-> nid, raised |-> TRUE]
        ELSE IF found = {}
            THEN [enrollments |-> enrs \cup {[id |-> nid, student |-> student,
                                              course |-> course, status |-> "active"]},
                  next |-> nid + 1, raised |-> FALSE]
        ELSE [enrollments |-> enrs, next |-> nid, raised |-> FALSE]

\* for student in students: get_or_create(student, instance); an exception
\* leaves the loop and is swallowed by the handler's except clause.
RECURSIVE EnrollStudents(_, _, _, _)
EnrollStudents(studentIds, course, enrs, nid) ==
    IF studentIds = <<>> THEN [enrollments |-> enrs, next |-> nid]
    ELSE LET r == get_or_create(enrs, nid, Head(studentIds), course)
         IN  IF r.raised THEN [enrollments |-> enrs, next |-> nid]
             ELSE EnrollStudents(Tail(studentIds), course, r.enrollments, r.next)

RECURSIVE EnrollInCourses(_, _, _, _)
EnrollInCourses(courseIds, student, enrs, nid) ==
    IF courseIds = <<>> THEN [enrollments |-> enrs, next |-> nid]
    ELSE LET r == get_or_create(enrs, nid, student, Head(courseIds))
         IN  IF r.raised THEN [enrollments |-> enrs, next |-> nid]
             ELSE EnrollInCourses(Tail(courseIds), student, r.enrollments, r.next)

\* The Course receiver enrolling every student, whoever created it.
auto_enroll_students_in_demo_courses_AllStudents(instance, created, studs, enrs, nid) ==
    IF created /\ is_demo(instance)
        THEN EnrollStudents(MostRecentFirst({s.id : s \in studs}), instance.id, enrs, nid)
    ELSE [enrollments |-> enrs, next |-> nid]

\* tutor.students.all() of the Course receiver, empty when the receiver's
\* condition (created and instance.is_demo()) does not hold.
tutor_students(instance, created, studs) ==
    IF created /\ is_demo(instance)
        THEN MostRecentFirst({s.id : s \in {x \in studs : x.created_by = instance.tutor}})
    ELSE <<>>

\* post_save receiver of Course; studs is the Student table at that moment.
auto_enroll_students_in_demo_courses(instance, created, studs, enrs, nid) ==
    EnrollStudents(tutor_students(instance, created, studs), instance.id, enrs, nid)

\* The Student receiver without the course_type filter.
auto_enroll_new_student_in_demos_AnyType(instance, created, crs, enrs, nid) ==
    IF created
        THEN EnrollInCourses(
                 MostRecentFirst({c.id : c \in {x \in crs : x.tutor = instance.created_by}}),
                 instance.id, enrs, nid)
    ELSE [enrollments |-> enrs, next |-> nid]

\* Course.objects.filter(tutor=tutor, course_type='demo') of the Student
\* receiver, empty when the receiver's condition (created) does not hold.
demo_courses(instance, created, crs) ==
    IF created
        THEN MostRecentFirst({c.id : c \in {x \in crs : x.tutor = instance.created_by
                                                     /\ x.course_type = "demo"}})
    ELSE <<>>

\* post_save receiver of Student; crs is the Course table at that moment.
auto_enroll_new_student_in_demos(instance, created, crs, enrs, nid) ==
    EnrollInCourses(demo_courses(instance, created, crs), instance.id, enrs, nid)

\* ------------------------------------------------------- model save paths
\* Tutor(user=u).save() / Tutor.objects.create(user=u), or an existing row
\* saved again (pk set, same user).
TutorSave(pk, user) ==
    /\ pk = None => seq.tutor <= MaxTutors
    /\ pk # None => user = TutorRow(pk).user
    /\ LET outcome == Tutor_save_outcome(pk, user)
           id == IF pk = None THEN seq.tutor ELSE pk
       IN  /\ result' = [op |-> "TutorSave", outcome |-> outcome]
           /\ IF outcome = "ok"
                 THEN /\ tutors' = {t \in tutors : t.id # id} \cup {[id |-> id, user |-> user]}
                      /\ seq' = IF pk = None THEN [seq EXCEPT !.tutor = @ + 1] ELSE seq
                 ELSE UNCHANGED <<tutors, seq>>
    /\ UNCHANGED <<users, students, courses, enrollments, txn, auth_user, readonly_fields>>

\* Student(user=u, created_by=t).save() / Student.objects.create(...), or an
\* existing row saved again (pk set, same user); post_save then runs the
\* Student receiver.
StudentSave(pk, user, created_by) ==
    /\ pk = None => seq.student <= MaxStudents
    /\ pk # None => user = StudentRow(pk).user
    /\ LET outcome == Student_save_outcome(pk, user)
           id == IF pk = None THEN seq.student ELSE pk
           row == [id |-> id, user |-> user, created_by |-> created_by]
           sig == auto_enroll_new_student_in_demos(row, pk = None, courses,
                                                   enrollments, seq.enrollment)
       IN  /\ result' = [op |-> "StudentSave", outcome |-> outcome]
           /\ IF outcome = "ok"
                 THEN /\ sig.next <= MaxEnrollments + 1
                      /\ students' = {s \in students : s.id # id} \cup {row}
                      /\ enrollments' = sig.enrollments
                      /\ seq' = [seq EXCEPT !.student = IF pk = None THEN @ + 1 ELSE @,
                                            !.enrollment = sig.next]
                 ELSE UNCHANGED <<students, enrollments, seq>>
    /\ UNCHANGED <<users, tutors, courses, txn, auth_user, readonly_fields>>

\* Course.objects.create(tutor=t, course_type=ty); post_save then runs the
\* Course receiver.
CourseCreate(tutor, course_type) ==
    /\ seq.course <= MaxCourses
    /\ LET row == [id |-> seq.course, tutor |-> tutor, course_type |-> course_type]
           sig == auto_enroll_students_in_demo_courses(row, TRUE, students,
                                                       enrollments, seq.enrollment)
       IN  /\ sig.next <= MaxEnrollments + 1
           /\ courses' = courses \cup {row}
           /\ enrollments' = sig.enrollments
           /\ seq' = [seq EXCEPT !.course = @ + 1, !.enrollment = sig.next]
           /\ result' = [op |-> "CourseCreate", outcome |-> "ok"]
    /\ UNCHANGED <<users, tutors, students, txn, auth_user, readonly_fields>>

\* Tutor.delete with nothing protecting the Tutor row.
Tutor_delete_outcome_Unprotected(pk) == "ok"

\* Tutor.delete, the collector's answer: Student.created_by is PROTECT, so
\* a Tutor that some Student references raises ProtectedError before any
\* row is deleted.
Tutor_delete_outcome(pk) ==
    IF \E s \in students : s.created_by = pk THEN "ProtectedError" ELSE "ok"

\* The Enrollment rows that go with a set of deleted Courses (the join row
\* follows its Course).
Enrollment_on_delete(enrs, courseIds) ==
    {e \in enrs : e.course \notin courseIds}

\* The Course table after the delete of Tutor pk, were Course.tutor not to
\* cascade.
Course_on_delete_Keep(crs, pk) == crs

\* The Course table after the delete of Tutor pk: Course.tutor is
\* on_delete=CASCADE, the Courses of the Tutor go with it.
Course_on_delete(crs, pk) ==
    {c \in crs : c.tutor # pk}

\* tutor.delete(): Course.tutor is CASCADE, so the Tutor row goes with its
\* Courses and their Enrollments, unless the collector raises.
TutorDelete(pk) ==
    /\ pk \in TutorIds
    /\ LET outcome == Tutor_delete_outcome(pk)
           gone == courses \ Course_on_delete(courses, pk)
       IN  /\ result' = [op |-> "TutorDelete", outcome |-> outcome]
           /\ IF outcome = "ok"
                 THEN /\ tutors' = tutors \ {TutorRow(pk)}
                      /\ courses' = courses \ gone
                      /\ enrollments' = Enrollment_on_delete(enrollments,
                                                             {c.id : c \in gone})
                 ELSE UNCHANGED <<tutors, courses, enrollments>>
    /\ UNCHANGED <<users, students, seq, txn, auth_user, readonly_fields>>

\* ------------------------------------------------------- accounts/admin.py
NoRows == [error |-> "none", rows |-> {}]
Rows(S) == [error |-> "none", rows |-> S]

\* TutorAdmin.get_queryset: qs.filter(user=request.user) unless superuser.
TutorAdmin_get_queryset(actor) ==
    IF is_superuser(actor) THEN Rows(tutors)
    ELSE Rows({t \in tutors : t.user = actor})

\* StudentAdmin.get_queryset returning the unfiltered table to a tutor.
StudentAdmin_get_queryset_Unfiltered(actor) ==
    IF is_superuser(actor) THEN Rows(students)
    ELSE IF RequestUserTutor(actor) = None THEN NoRows
    ELSE Rows(students)

\* StudentAdmin.get_queryset without the except clause.
StudentAdmin_get_queryset_Uncaught(actor) ==
    IF is_superuser(actor) THEN Rows(students)
    ELSE IF RequestUserTutor(actor) = None THEN [error |-> "DoesNotExist", rows |-> {}]
    ELSE Rows({s \in students : s.created_by = RequestUserTutor(actor)})

\* StudentAdmin.get_queryset: qs.filter(created_by=request.user.tutor); the
\* DoesNotExist of the accessor is caught and gives qs.none().
StudentAdmin_get_queryset(actor) ==
    IF is_superuser(actor) THEN Rows(students)
    ELSE IF RequestUserTutor(actor) = None THEN NoRows
    ELSE Rows({s \in students : s.created_by = RequestUserTutor(actor)})

\* CourseAdmin.get_queryset: qs.filter(tutor__user=request.user), a join of
\* Course with Tutor on the user column.
CourseAdmin_get_queryset(actor) ==
    IF is_superuser(actor) THEN Rows(courses)
    ELSE Rows({c \in courses : \E t \in tutors : t.id = c.tutor /\ t.user = actor})

\* EnrollmentAdmin.get_queryset filtering on the student's creator instead
\* of the course's tutor.
EnrollmentAdmin_get_queryset_ByStudent(actor) ==
    IF is_superuser(actor) THEN Rows(enrollments)
    ELSE Rows({e \in enrollments :
                 \E st \in students : /\ st.id = e.student
                                      /\ \E t \in tutors : t.id = st.created_by /\ t.user = actor})

\* EnrollmentAdmin.get_queryset: qs.filter(course__tutor__user=request.user).
EnrollmentAdmin_get_queryset(actor) ==
    IF is_superuser(actor) THEN Rows(enrollments)
    ELSE Rows({e \in enrollments :
                 \E c \in courses : /\ c.id = e.course
                                    /\ \E t \in tutors : t.id = c.tutor /\ t.user = actor})

EntityTypes == {"Tutor", "Student", "Course", "Enrollment"}

\* list_visible(actor, entity): the queryset of the entity's admin class.
list_visible(actor, entity) ==
    CASE entity = "Tutor" -> TutorAdmin_get_queryset(actor)
      [] entity = "Student" -> StudentAdmin_get_queryset(actor)
      [] entity = "Course" -> CourseAdmin_get_queryset(actor)
      [] entity = "Enrollment" -> EnrollmentAdmin_get_queryset(actor)

\* A by-id lookup on the whole table that answers Forbidden for a row
\* outside the actor's queryset.
get_by_id_Forbidden(actor, entity, id) ==
    LET found == {r \in list_visible(actor, entity).rows : r.id = id}
        table == list_visible(SuperUser, entity).rows
    IN  IF found # {} THEN [outcome |-> "ok", row |-> CHOOSE r \in found : TRUE]
        ELSE IF \E r \in table : r.id = id THEN [outcome |-> "Forbidden", row |-> None]
        ELSE [outcome |-> "NotFound", row |-> None]

\* get_by_id(actor, entity, id): the by-id lookup goes through the same
\* queryset, filtered by id; .first() gives None when nothing matches.
get_by_id(actor, entity, id) ==
    LET found == {r \in list_visible(actor, entity).rows : r.id = id}
    IN  IF found = {} THEN [outcome |-> "NotFound", row |-> None]
        ELSE [outcome |-> "ok", row |-> CHOOSE r \in found : TRUE]

\* TutorAdmin.formfield_for_foreignkey: the users offered for a new Tutor.
TutorAdmin_user_choices ==
    {u \in users : ~HasTutor(u) /\ ~HasStudent(u)}

\* TutorAdmin: only a superuser may add (has_add_permission); on add the
\* user is one of the offered choices; the row is then saved with
\* Tutor.save.
TutorAdmin_save_outcome(actor, pk, user) ==
    IF pk = None /\ ~is_superuser(actor) THEN "PermissionDenied"
    ELSE IF pk = None /\ user \notin TutorAdmin_user_choices THEN "ValidationError"
    ELSE Tutor_save_outcome(pk, user)

\* TutorAdmin add (pk = None) or change of a row of the actor's queryset;
\* on change the user column is read-only.
TutorAdminSave(actor, pk, user) ==
    /\ pk = None => seq.tutor <= MaxTutors
    /\ pk # None => /\ pk \in {t.id : t \in TutorAdmin_get_queryset(actor).rows}
                    /\ user = TutorRow(pk).user
    /\ LET outcome == TutorAdmin_save_outcome(actor, pk, user)
           id == IF pk = None THEN seq.tutor ELSE pk
       IN  /\ result' = [op |-> "TutorAdminSave", outcome |-> outcome]
           /\ IF outcome = "ok"
                 THEN /\ tutors' = {t \in tutors : t.id # id} \cup {[id |-> id, user |-> user]}
                      /\ seq' = IF pk = None THEN [seq EXCEPT !.tutor = @ + 1] ELSE seq
                 ELSE UNCHANGED <<tutors, seq>>
    /\ UNCHANGED <<users, students, courses, enrollments, txn, auth_user, readonly_fields>>

\* The assignment of created_by without the superuser's check.
StudentAdmin_assign_created_by_NoCheck(actor, created_by) ==
    IF is_superuser(actor) THEN [outcome |-> "ok", created_by |-> created_by]
    ELSE IF RequestUserTutor(actor) # None
        THEN [outcome |-> "ok", created_by |-> RequestUserTutor(actor)]
    ELSE [outcome |-> "NoTutorProfile", created_by |-> None]

\* StudentAdmin.save_model, the created_by that the new Student gets, or the
\* error raised instead: the superuser's choice from the form, the actor's
\* own Tutor row otherwise.
StudentAdmin_assign_created_by(actor, created_by) ==
    IF is_superuser(actor)
        THEN IF created_by # None THEN [outcome |-> "ok", created_by |-> created_by]
             ELSE [outcome |-> "MissingAssignment", created_by |-> None]
    ELSE IF RequestUserTutor(actor) # None
        THEN [outcome |-> "ok", created_by |-> RequestUserTutor(actor)]
    ELSE [outcome |-> "NoTutorProfile", created_by |-> None]

\* A block whose writes stay when it raises.
transaction_atomic_NoRollback(before, written, raised) == written

\* @transaction.atomic: the writes of the block are kept when it returns
\* and undone when it raises.
transaction_atomic(before, written, raised) ==
    IF raised THEN before ELSE written

\* StudentAdmin.save_model with change = False, inside transaction.atomic:
\* create the User, assign created_by (or raise), save the Student (which
\* fires the Student receiver).
StudentAdmin_save_model_add(actor, created_by, report) ==
    /\ seq.user <= MaxUsers
    /\ seq.student <= MaxStudents
    /\ LET user == seq.user
           asg == StudentAdmin_assign_created_by(actor, created_by)
           outcome == IF asg.outcome # "ok" THEN asg.outcome
                      ELSE Student_save_outcome(None, user)
           row == [id |-> seq.student, user |-> user, created_by |-> asg.created_by]
           sig == auto_enroll_new_student_in_demos(row, TRUE, courses,
                                                   enrollments, seq.enrollment)
           before == [users |-> users, students |-> students,
                      enrollments |-> enrollments]
           written == IF outcome = "ok"
                          THEN [users |-> users \cup {user},
                                students |-> students \cup {row},
                                enrollments |-> sig.enrollments]
                      ELSE [before EXCEPT !.users = users \cup {user}]
           kept == transaction_atomic(before, written, outcome # "ok")
       IN  /\ result' = [report EXCEPT !.outcome = outcome]
           /\ outcome = "ok" => sig.next <= MaxEnrollments + 1
           /\ users' = kept.users
           /\ students' = kept.students
           /\ enrollments' = kept.enrollments
           /\ seq' = [seq EXCEPT !.user = IF user \in kept.users THEN @ + 1 ELSE @,
                                 !.student = IF row \in kept.students THEN @ + 1 ELSE @,
                                 !.enrollment = IF outcome = "ok" THEN sig.next ELSE @]
    /\ UNCHANGED <<tutors, courses, txn, readonly_fields>>

\* The creation of a Student whose form data is not followed.
StudentAdminCreate(actor, created_by) ==
    /\ StudentAdmin_save_model_add(actor, created_by,
                                   [op |-> "StudentAdminCreate", outcome |-> "none"])
    /\ UNCHANGED auth_user

\* StudentAdmin.get_readonly_fields: created_by is read-only on edit unless
\* the actor is a superuser.
StudentAdmin_created_by_readonly(actor, change) ==
    change /\ ~is_superuser(actor)

\* StudentAdmin.save_model with change = True: the object comes from the
\* actor's queryset; the User's names and email are rewritten and the
\* Student is saved (Student.save validates, the receiver sees created =
\* False).
StudentAdmin_save_model_change(actor, pk, created_by) ==
    /\ pk \in {s.id : s \in StudentAdmin_get_queryset(actor).rows}
    /\ LET old == StudentRow(pk)
           new_created_by == IF StudentAdmin_created_by_readonly(actor, TRUE)
                                THEN old.created_by ELSE created_by
           outcome == Student_save_outcome(pk, old.user)
       IN  /\ result' = [op |-> "StudentAdminChange", outcome |-> outcome]
           /\ IF outcome = "ok"
                 THEN students' = (students \ {old}) \cup
                                      {[old EXCEPT !.created_by = new_created_by]}
                 ELSE UNCHANGED students
    /\ UNCHANGED <<users, tutors, courses, enrollments, seq, txn, readonly_fields>>

\* The edit of a Student whose form data is not followed.
StudentAdminChange(actor, pk, created_by) ==
    /\ StudentAdmin_save_model_change(actor, pk, created_by)
    /\ UNCHANGED auth_user

\* ------------------------------------------------------- accounts/forms.py
\* What the forms are filled with: usernames, e-mail addresses (local part
\* and domain), passwords (sequences of characters, <<>> for a blank one).
Usernames == {"ana", "ben", "cai"}
Domains == {"x.org", "X.ORG"}
Emails == [local : {"a"}, domain : Domains] \cup {[local |-> "b", domain |-> "x.org"]}
Passwords == {<<>>, <<1, 2, 3>>, <<1, 2, 3, 4>>, <<4, 3, 2, 1>>}
CreationForms ==
    [username : Usernames, email : Emails, password1 : Passwords,
     password2 : Passwords]

lower(domain) == IF domain = "X.ORG" THEN "x.org" ELSE domain

\* BaseUserManager.normalize_email, applied by create_user: the domain part
\* is lowercased.
normalize_email(email) == [email EXCEPT !.domain = lower(@)]

\* User.objects.create_user(username=..., email=..., password=...).
create_user(id, form) ==
    [id |-> id, username |-> form.username, email |-> normalize_email(form.email)]

\* required=True on a CharField.
required(value) == IF value = <<>> THEN "ValidationError" ELSE "ok"

StudentCreationForm_clean_username(accounts, username) ==
    IF \E a \in accounts : a.username = username THEN "ValidationError" ELSE "ok"

StudentCreationForm_clean_email(accounts, email) ==
    IF \E a \in accounts : a.email = email THEN "ValidationError" ELSE "ok"

\* The length check with the minimum that the class docstring announces.
StudentCreationForm_clean_password1_Min8(password1) ==
    IF password1 # <<>> /\ Len(password1) < 8 THEN "ValidationError" ELSE "ok"

StudentCreationForm_clean_password1(password1) ==
    IF password1 # <<>> /\ Len(password1) < MinPassword THEN "ValidationError" ELSE "ok"

\* cleaned_data of the creation form for a password field: the value when
\* the field's own cleaning passed, nothing otherwise.
cleaned_password1(form) ==
    IF required(form.password1) = "ok"
       /\ StudentCreationForm_clean_password1(form.password1) = "ok"
        THEN form.password1 ELSE <<>>
cleaned_password2(form) ==
    IF required(form.password2) = "ok" THEN form.password2 ELSE <<>>

\* StudentCreationForm.clean: both passwords are there and differ.
StudentCreationForm_clean(form) ==
    IF /\ cleaned_password1(form) # <<>>
       /\ cleaned_password2(form) # <<>>
       /\ cleaned_password1(form) # cleaned_password2(form)
        THEN "ValidationError" ELSE "ok"

\* form.is_valid(): no field and no clean method raised.
StudentCreationForm_is_valid(accounts, form) ==
    /\ StudentCreationForm_clean_username(accounts, form.username) = "ok"
    /\ StudentCreationForm_clean_email(accounts, form.email) = "ok"
    /\ required(form.password1) = "ok"
    /\ StudentCreationForm_clean_password1(form.password1) = "ok"
    /\ required(form.password2) = "ok"
    /\ StudentCreationForm_clean(form) = "ok"

\* The add view of StudentAdmin with its form data: an invalid form is shown
\* again and nothing is saved; a valid one goes to save_model, which creates
\* the User from it. The result keeps the submitted form.
StudentCreationFormSubmit(actor, created_by, form) ==
    IF StudentCreationForm_is_valid(auth_user, form)
        THEN /\ StudentAdmin_save_model_add(actor, created_by,
                        [op |-> "StudentCreationForm", outcome |-> "none",
                         form |-> form])
             /\ auth_user' = IF seq.user \in users'
                                THEN auth_user \cup {create_user(seq.user, form)}
                             ELSE auth_user
    ELSE /\ result' = [op |-> "StudentCreationForm", outcome |-> "ValidationError",
                        form |-> form]
         /\ UNCHANGED <<users, auth_user, tutors, students, courses,
                        enrollments, seq, txn, readonly_fields>>

\* The change view of StudentAdmin with its form data (StudentChangeForm
\* checks the e-mail's syntax only): save_model writes the e-mail to the
\* Student's User inside the atomic block.
StudentChangeFormSubmit(actor, pk, created_by, email) ==
    /\ StudentAdmin_save_model_change(actor, pk, created_by)
    /\ auth_user' = IF result'.outcome = "ok"
                       THEN {IF a.id = StudentRow(pk).user
                                THEN [a EXCEPT !.email = email] ELSE a
                             : a \in auth_user}
                    ELSE auth_user

\* The Enrollment rows that go with a deleted Student (the join row follows
\* its Student).
Enrollment_on_delete_student(enrs, pk) ==
    {e \in enrs : e.student # pk}

\* StudentAdmin defines no has_delete_permission: ModelAdmin's own applies,
\* request.user.has_perm('accounts.delete_student'), true of a superuser and
\* of whoever was granted the permission.
StudentAdmin_has_delete_permission(actor, has_perm) ==
    is_superuser(actor) \/ has_perm

\* The delete view of StudentAdmin: the object comes from the actor's
\* queryset; with the permission the Student row and its Enrollments are
\* deleted, the User stays. has_perm is whether the actor holds the
\* delete_student permission.
StudentAdminDelete(actor, pk, has_perm) ==
    /\ pk \in {s.id : s \in StudentAdmin_get_queryset(actor).rows}
    /\ LET outcome == IF StudentAdmin_has_delete_permission(actor, has_perm)
                          THEN "ok" ELSE "PermissionDenied"
       IN  /\ result' = [op |-> "StudentAdminDelete", outcome |-> outcome,
                         actor |-> actor]
           /\ IF outcome = "ok"
                 THEN /\ students' = students \ {StudentRow(pk)}
                      /\ enrollments' = Enrollment_on_delete_student(enrollments, pk)
                 ELSE UNCHANGED <<students, enrollments>>
    /\ UNCHANGED <<users, tutors, courses, seq, txn, auth_user, readonly_fields>>

\* The assignment of the tutor with a nullable Course.tutor.
CourseAdmin_assign_tutor_Nullable(actor, tutor) ==
    IF ~is_superuser(actor)
        THEN IF RequestUserTutor(actor) # None
                 THEN [outcome |-> "ok", tutor |-> RequestUserTutor(actor)]
             ELSE [outcome |-> "NoTutorProfile", tutor |-> None]
    ELSE [outcome |-> "ok", tutor |-> tutor]

\* The assignment of the tutor taking the request's tutor from every actor.
CourseAdmin_assign_tutor_FromRequest(actor, tutor) ==
    IF tutor # None THEN [outcome |-> "ok", tutor |-> tutor]
    ELSE IF is_superuser(actor) THEN [outcome |-> "MissingAssignment", tutor |-> None]
    ELSE IF RequestUserTutor(actor) # None
        THEN [outcome |-> "ok", tutor |-> RequestUserTutor(actor)]
    ELSE [outcome |-> "NoTutorProfile", tutor |-> None]

\* CourseAdmin.save_model, the owning tutor of a new Course, or the error
\* raised instead: the actor's own Tutor row unless the actor is a
\* superuser, whose form value is used as it is; Course.tutor is not
\* nullable, so a Course without tutor is refused.
CourseAdmin_assign_tutor(actor, tutor) ==
    IF ~is_superuser(actor)
        THEN IF RequestUserTutor(actor) # None
                 THEN [outcome |-> "ok", tutor |-> RequestUserTutor(actor)]
             ELSE [outcome |-> "NoTutorProfile", tutor |-> None]
    ELSE IF tutor # None THEN [outcome |-> "ok", tutor |-> tutor]
    ELSE [outcome |-> "MissingAssignment", tutor |-> None]

\* CourseAdmin.save_model with change = False, inside transaction.atomic;
\* saving the Course fires the Course receiver.
CourseAdminCreate(actor, tutor, course_type) ==
    /\ seq.course <= MaxCourses
    /\ LET asg == CourseAdmin_assign_tutor(actor, tutor)
           row == [id |-> seq.course, tutor |-> asg.tutor, course_type |-> course_type]
           sig == auto_enroll_students_in_demo_courses(row, TRUE, students,
                                                       enrollments, seq.enrollment)
       IN  /\ result' = [op |-> "CourseAdminCreate", outcome |-> asg.outcome]
           /\ IF asg.outcome = "ok"
                 THEN /\ sig.next <= MaxEnrollments + 1
                      /\ courses' = courses \cup {row}
                      /\ enrollments' = sig.enrollments
                      /\ seq' = [seq EXCEPT !.course = @ + 1, !.enrollment = sig.next]
                 ELSE UNCHANGED <<courses, enrollments, seq>>
    /\ UNCHANGED <<users, tutors, students, txn, auth_user, readonly_fields>>

\* Read-only fields with tutor left editable on edit.
CourseAdmin_readonly_TutorEditable(change) ==
    IF change THEN {"created_at", "updated_at", "course_type"}
    ELSE {"created_at", "updated_at"}

\* CourseAdmin.get_readonly_fields: on edit course_type and tutor are
\* read-only for every actor.
CourseAdmin_readonly(change) ==
    IF change THEN {"created_at", "updated_at", "course_type", "tutor"}
    ELSE {"created_at", "updated_at"}

\* CourseAdmin.save_model with change = True: the object comes from the
\* actor's queryset; the form carries no read-only column, so those keep the
\* stored value whatever the request says; the receiver sees created = False.
CourseAdminChange(actor, pk, tutor, course_type) ==
    /\ pk \in {c.id : c \in CourseAdmin_get_queryset(actor).rows}
    /\ LET old == CourseRow(pk)
           new == [id |-> pk,
                   tutor |-> IF "tutor" \in CourseAdmin_readonly(TRUE)
                                THEN old.tutor ELSE tutor,
                   course_type |-> IF "course_type" \in CourseAdmin_readonly(TRUE)
                                      THEN old.course_type ELSE course_type]
           sig == auto_enroll_students_in_demo_courses(new, FALSE, students,
                                                       enrollments, seq.enrollment)
       IN  /\ sig.next <= MaxEnrollments + 1
           /\ courses' = (courses \ {old}) \cup {new}
           /\ enrollments' = sig.enrollments
           /\ seq' = [seq EXCEPT !.enrollment = sig.next]
           /\ result' = [op |-> "CourseAdminChange", outcome |-> "ok"]
    /\ UNCHANGED <<users, tutors, students, txn, auth_user, readonly_fields>>

\* EnrollmentAdmin.save_model without the check of the student's creator.
EnrollmentAdmin_validate_CourseOnly(actor, student, course) ==
    IF is_superuser(actor) THEN "ok"
    ELSE IF RequestUserTutor(actor) = None THEN "DoesNotExist"
    ELSE IF CourseRow(course).tutor # RequestUserTutor(actor) THEN "OwnershipViolation"
    ELSE "ok"

\* EnrollmentAdmin.save_model, the validation of a non-superuser's request:
\* request.user.tutor (DoesNotExist propagates), the course must be the
\* tutor's, the student must have been created by the tutor.
EnrollmentAdmin_validate(actor, student, course) ==
    IF is_superuser(actor) THEN "ok"
    ELSE IF RequestUserTutor(actor) = None THEN "DoesNotExist"
    ELSE IF CourseRow(course).tutor # RequestUserTutor(actor) THEN "OwnershipViolation"
    ELSE IF StudentRow(student).created_by # RequestUserTutor(actor) THEN "OwnershipViolation"
    ELSE "ok"

\* EnrollmentAdmin.get_readonly_fields: super() returns the list object
\* self.readonly_fields itself, and 'status' is appended to it when a
\* non-superuser edits an existing Enrollment. The value is both what the
\* request gets and what the class attribute holds afterwards.
EnrollmentAdmin_get_readonly_fields(fields, actor, change) ==
    IF change /\ ~is_superuser(actor) THEN fields \cup {"status"} ELSE fields

\* The Enrollment table without its unique index.
Enrollment_save_outcome_NoIndex(enrs, row) == "ok"

\* Enrollment.save, the answer of the store: the table carries a unique
\* index on (student, course), so a row whose pair another row already
\* holds is refused.
Enrollment_save_outcome(enrs, row) ==
    IF \E e \in enrs : /\ e.id # row.id
                       /\ e.student = row.student
                       /\ e.course = row.course
        THEN "IntegrityError"
    ELSE "ok"

\* Enrollment.save: the accepted row is written as given.
Enrollment_save(enrs, row) ==
    {e \in enrs : e.id # row.id} \cup {row}

\* The add or change view of EnrollmentAdmin, for a new Enrollment
\* (pk = None) or for one of the actor's queryset: the form is built without
\* the read-only fields (a new row then keeps the default status, an
\* existing one its stored status), then save_model runs inside
\* transaction.atomic.
EnrollmentAdminSave(actor, pk, student, course, status) ==
    /\ pk = None => seq.enrollment <= MaxEnrollments
    /\ pk # None => pk \in {e.id : e \in EnrollmentAdmin_get_queryset(actor).rows}
    /\ LET id == IF pk = None THEN seq.enrollment ELSE pk
           readonly == EnrollmentAdmin_get_readonly_fields(readonly_fields,
                                                           actor, pk # None)
           row == [id |-> id, student |-> student, course |-> course,
                   status |-> IF "status" \notin readonly THEN status
                              ELSE IF pk = None THEN "active"
                              ELSE EnrollmentRow(pk).status]
           outcome == IF EnrollmentAdmin_validate(actor, student, course) # "ok"
                          THEN EnrollmentAdmin_validate(actor, student, course)
                      ELSE Enrollment_save_outcome(enrollments, row)
       IN  /\ result' = [op |-> "EnrollmentAdminSave", outcome |-> outcome]
           /\ readonly_fields' = readonly
           /\ IF outcome = "ok"
                 THEN /\ enrollments' = Enrollment_save(enrollments, row)
                      /\ seq' = IF pk = None THEN [seq EXCEPT !.enrollment = @ + 1] ELSE seq
                 ELSE UNCHANGED <<enrollments, seq>>
    /\ UNCHANGED <<users, tutors, students, courses, txn, auth_user>>

\* The Enrollment rows of a (student, course) pair.
EnrollmentsOf(enrs, student, course) ==
    {e \in enrs : e.student = student /\ e.course = course}

\* ----------------------------------------------------- concurrent requests
\* What connection p reads: the committed rows and its own writes.
Visible(p) ==
    [students |-> students \cup txn[p].students,
     courses |-> courses \cup txn[p].courses,
     enrollments |-> enrollments \cup txn[p].enrollments]

\* A Student creation starts on connection p: a new account and its
\* Student row are written, inside transaction.atomic (StudentAdmin
\* save_model) or statement by statement (create_user and
\* Student.objects.create); the receiver has yet to run.
StartStudent(p, atomic, created_by) ==
    /\ txn[p].pc = "idle"
    /\ seq.user <= MaxUsers
    /\ seq.student <= MaxStudents
    /\ LET row == [id |-> seq.student, user |-> seq.user, created_by |-> created_by]
       IN  /\ txn' = [txn EXCEPT ![p] =
                         [Idle EXCEPT !.op = "Student", !.pc = "saved",
                                      !.atomic = atomic, !.row = {row},
                                      !.users = IF atomic THEN {seq.user} ELSE {},
                                      !.students = IF atomic THEN {row} ELSE {}]]
           /\ users' = IF atomic THEN users ELSE users \cup {seq.user}
           /\ students' = IF atomic THEN students ELSE students \cup {row}
    /\ seq' = [seq EXCEPT !.user = @ + 1, !.student = @ + 1]
    /\ UNCHANGED <<tutors, courses, enrollments, result, auth_user, readonly_fields>>

\* A Course creation starts on connection p: the Course row is written,
\* inside transaction.atomic (CourseAdmin.save_model) or on its own
\* (Course.objects.create); the receiver has yet to run.
StartCourse(p, atomic, tutor, course_type) ==
    /\ txn[p].pc = "idle"
    /\ seq.course <= MaxCourses
    /\ LET row == [id |-> seq.course, tutor |-> tutor, course_type |-> course_type]
       IN  /\ txn' = [txn EXCEPT ![p] =
                         [Idle EXCEPT !.op = "Course", !.pc = "saved",
                                      !.atomic = atomic, !.row = {row},
                                      !.courses = IF atomic THEN {row} ELSE {}]]
           /\ courses' = IF atomic THEN courses ELSE courses \cup {row}
    /\ seq' = [seq EXCEPT !.course = @ + 1]
    /\ UNCHANGED <<users, tutors, students, enrollments, result, auth_user, readonly_fields>>

\* The receiver of the row just saved runs its query on what the
\* connection reads and gets the pairs to get_or_create, in loop order.
Query(p) ==
    /\ txn[p].pc = "saved"
    /\ LET instance == CHOOSE r \in txn[p].row : TRUE
           found == IF txn[p].op = "Student"
                       THEN demo_courses(instance, TRUE, Visible(p).courses)
                    ELSE tutor_students(instance, TRUE, Visible(p).students)
           todo == [i \in 1..Len(found) |->
                       IF txn[p].op = "Student" THEN <<instance.id, found[i]>>
                       ELSE <<found[i], instance.id>>]
       IN  txn' = [txn EXCEPT ![p].pc = "get", ![p].todo = todo]
    /\ UNCHANGED <<users, tutors, students, courses, enrollments, seq, result, auth_user, readonly_fields>>

\* get_or_create, the lookup: get() on what the connection reads. One row
\* found ends the pair, more than one raises and ends the loop, none goes
\* on to the insert.
Get(p) ==
    /\ txn[p].pc = "get"
    /\ txn[p].todo # <<>>
    /\ LET pair == Head(txn[p].todo)
           found == EnrollmentsOf(Visible(p).enrollments, pair[1], pair[2])
       IN  txn' = IF found = {}
                     THEN [txn EXCEPT ![p].pc = "create"]
                  ELSE [txn EXCEPT ![p].tried = @ \cup {pair},
                                   ![p].todo = IF Cardinality(found) > 1
                                                  THEN <<>> ELSE Tail(@)]
    /\ UNCHANGED <<users, tutors, students, courses, enrollments, seq, result, auth_user, readonly_fields>>

\* get_or_create, the insert after an empty lookup: create() with status
\* active. An insert the store refuses makes get_or_create look again and
\* return the row that is there. An insert whose pair another connection
\* has written and not yet committed waits for that connection.
Create(p) ==
    /\ txn[p].pc = "create"
    /\ LET pair == Head(txn[p].todo)
           row == [id |-> seq.enrollment, student |-> pair[1], course |-> pair[2],
                   status |-> "active"]
           outcome == Enrollment_save_outcome(Visible(p).enrollments, row)
       IN  /\ \A q \in Procs \ {p} :
                  EnrollmentsOf(txn[q].enrollments, pair[1], pair[2]) = {}
           /\ IF outcome = "ok"
                 THEN /\ seq.enrollment <= MaxEnrollments
                      /\ txn' = [txn EXCEPT ![p].pc = "get",
                                            ![p].todo = Tail(@),
                                            ![p].tried = @ \cup {pair},
                                            ![p].enrollments =
                                                IF txn[p].atomic THEN @ \cup {row} ELSE @]
                      /\ enrollments' = IF txn[p].atomic THEN enrollments
                                        ELSE Enrollment_save(enrollments, row)
                      /\ seq' = [seq EXCEPT !.enrollment = @ + 1]
                 ELSE /\ txn' = [txn EXCEPT ![p].pc = "get",
                                            ![p].todo = Tail(@),
                                            ![p].tried = @ \cup {pair},
                                            ![p].refused = @ \cup {pair}]
                      /\ UNCHANGED <<enrollments, seq>>
    /\ UNCHANGED <<users, tutors, students, courses, result, auth_user, readonly_fields>>

\* A handler that lets the exception of its pass through.
handler_outcome_Reraise(raised) ==
    IF raised THEN "Exception" ELSE "ok"

\* The receivers' except clauses (except ObjectDoesNotExist, except
\* Exception): whatever the pass raises is printed and the handler returns.
handler_outcome(raised) == "ok"

\* A statement of the receiver's pass raises (the query, a lookup or an
\* insert of get_or_create). The except clause ends the pass; an exception
\* that left the handler would end the request and roll its atomic block
\* back.
Fail(p) ==
    /\ \/ /\ txn[p].pc = "saved"
          /\ \A r \in txn[p].row : txn[p].op = "Course" => is_demo(r)
       \/ txn[p].pc = "get" /\ txn[p].todo # <<>>
       \/ txn[p].pc = "create"
    /\ txn' = IF handler_outcome(TRUE) = "ok"
                 THEN [txn EXCEPT ![p].pc = "get", ![p].todo = <<>>,
                                  ![p].raised = TRUE]
              ELSE [txn EXCEPT ![p].pc = "done", ![p].todo = <<>>,
                               ![p].raised = TRUE,
                               ![p].error = handler_outcome(TRUE),
                               ![p].users = {}, ![p].students = {},
                               ![p].courses = {}, ![p].enrollments = {}]
    /\ UNCHANGED <<users, tutors, students, courses, enrollments, seq, result, auth_user, readonly_fields>>

\* The receiver's loop is over and the request ends: the atomic block
\* commits what the connection has written.
Finish(p) ==
    /\ txn[p].pc = "get"
    /\ txn[p].todo = <<>>
    /\ users' = users \cup txn[p].users
    /\ students' = students \cup txn[p].students
    /\ courses' = courses \cup txn[p].courses
    /\ enrollments' = enrollments \cup txn[p].enrollments
    /\ txn' = [txn EXCEPT ![p].pc = "done", ![p].users = {}, ![p].students = {},
                          ![p].courses = {}, ![p].enrollments = {}]
    /\ UNCHANGED <<tutors, seq, result, auth_user, readonly_fields>>

\* The connection is free for the next request.
Return(p) ==
    /\ txn[p].pc = "done"
    /\ txn' = [txn EXCEPT ![p] = Idle]
    /\ UNCHANGED <<users, tutors, students, courses, enrollments, seq, result, auth_user, readonly_fields>>

\* ------------------------------------------------------------------- Next
Next ==
    \/ CreateUser
    \/ \E pk \in TutorIds \cup {None}, u \in users : TutorSave(pk, u)
    \/ \E a \in users, pk \in TutorIds \cup {None}, u \in users : TutorAdminSave(a, pk, u)
    \/ \E pk \in StudentIds \cup {None}, u \in users, t \in TutorIds : StudentSave(pk, u, t)
    \/ \E a \in users, t \in TutorIds \cup {None} : StudentAdminCreate(a, t)
    \/ \E a \in users, pk \in StudentIds, t \in TutorIds : StudentAdminChange(a, pk, t)
    \/ \E t \in TutorIds, ty \in COURSE_TYPE_CHOICES : CourseCreate(t, ty)
    \/ \E a \in users, t \in TutorIds \cup {None}, ty \in COURSE_TYPE_CHOICES :
           CourseAdminCreate(a, t, ty)
    \/ \E a \in users, pk \in CourseIds, t \in TutorIds, ty \in COURSE_TYPE_CHOICES :
           CourseAdminChange(a, pk, t, ty)
    \/ \E a \in users, pk \in EnrollmentIds \cup {None}, s \in StudentIds,
          c \in CourseIds, st \in STATUS_CHOICES : EnrollmentAdminSave(a, pk, s, c, st)
    \/ \E pk \in TutorIds : TutorDelete(pk)
    \/ \E p \in Procs, atomic \in BOOLEAN, t \in TutorIds : StartStudent(p, atomic, t)
    \/ \E p \in Procs, atomic \in BOOLEAN, t \in TutorIds, ty \in COURSE_TYPE_CHOICES :
           StartCourse(p, atomic, t, ty)
    \/ \E p \in Procs : Query(p)
    \/ \E p \in Procs : Get(p)
    \/ \E p \in Procs : Create(p)
    \/ \E p \in Procs : Fail(p)
    \/ \E p \in Procs : Finish(p)
    \/ \E p \in Procs : Return(p)
    \/ \E a \in users, t \in TutorIds \cup {None}, form \in CreationForms :
           StudentCreationFormSubmit(a, t, form)
    \/ \E a \in users, pk \in StudentIds, t \in TutorIds, email \in Emails :
           StudentChangeFormSubmit(a, pk, t, email)
    \/ \E a \in users, pk \in StudentIds, has_perm \in BOOLEAN :
           StudentAdminDelete(a, pk, has_perm)

Spec == Init /\ [][Next]_vars

\* The role guard alone: accounts, and Tutor and Student rows saved through
\* the model save path and the Tutor admin.
NextRoles ==
    \/ CreateUser
    \/ \E pk \in TutorIds \cup {None}, u \in users : TutorSave(pk, u)
    \/ \E a \in users, pk \in TutorIds \cup {None}, u \in users : TutorAdminSave(a, pk, u)
    \/ \E pk \in StudentIds \cup {None}, u \in users, t \in TutorIds : StudentSave(pk, u, t)

SpecRoles == Init /\ [][NextRoles]_vars

\* The course types that the requests of the admin site choose from: demo,
\* and level for the types that are not demo (no code treats custom and
\* level differently).
AdminCourseTypes == {"demo", "level"}

\* The admin site: every row is made and edited through the admin classes.
NextAdmin ==
    \/ CreateUser
    \/ \E a \in users, pk \in TutorIds \cup {None}, u \in users : TutorAdminSave(a, pk, u)
    \/ \E a \in users, t \in TutorIds \cup {None} : StudentAdminCreate(a, t)
    \/ \E a \in users, pk \in StudentIds, t \in TutorIds : StudentAdminChange(a, pk, t)
    \/ \E a \in users, t \in TutorIds \cup {None}, ty \in AdminCourseTypes :
           CourseAdminCreate(a, t, ty)
    \/ \E a \in users, pk \in CourseIds, t \in TutorIds, ty \in AdminCourseTypes :
           CourseAdminChange(a, pk, t, ty)
    \/ \E a \in users, pk \in EnrollmentIds \cup {None}, s \in StudentIds,
          c \in CourseIds, st \in STATUS_CHOICES : EnrollmentAdminSave(a, pk, s, c, st)

SpecAdmin == Init /\ [][NextAdmin]_vars

\* The creations of the admin site: Tutors, Students and Courses.
NextCreate ==
    \/ CreateUser
    \/ \E a \in users, pk \in TutorIds \cup {None}, u \in users : TutorAdminSave(a, pk, u)
    \/ \E a \in users, t \in TutorIds \cup {None} : StudentAdminCreate(a, t)
    \/ \E a \in users, t \in TutorIds \cup {None}, ty \in COURSE_TYPE_CHOICES :
           CourseAdminCreate(a, t, ty)

SpecCreate == Init /\ [][NextCreate]_vars

\* The creations of the admin site and the deletion of Tutors.
NextDelete ==
    \/ CreateUser
    \/ \E a \in users, pk \in TutorIds \cup {None}, u \in users : TutorAdminSave(a, pk, u)
    \/ \E a \in users, t \in TutorIds \cup {None} : StudentAdminCreate(a, t)
    \/ \E a \in users, t \in TutorIds \cup {None}, ty \in COURSE_TYPE_CHOICES :
           CourseAdminCreate(a, t, ty)
    \/ \E pk \in TutorIds : TutorDelete(pk)

SpecDelete == Init /\ [][NextDelete]_vars

\* Two connections creating Students and Courses side by side, for two
\* tutors made beforehand (one on the superuser's account).
InitConcurrent ==
    /\ users = {SuperUser, 2}
    /\ auth_user = {}
    /\ tutors = {[id |-> 1, user |-> 2], [id |-> 2, user |-> SuperUser]}
    /\ students = {}
    /\ courses = {}
    /\ enrollments = {}
    /\ seq = [user |-> 3, tutor |-> 3, student |-> 1, course |-> 1, enrollment |-> 1]
    /\ result = NoResult
    /\ txn = [p \in Procs |-> Idle]
    /\ readonly_fields = EnrollmentAdmin_readonly_fields

NextConcurrent ==
    \/ \E p \in Procs, atomic \in BOOLEAN, t \in TutorIds : StartStudent(p, atomic, t)
    \/ \E p \in Procs, atomic \in BOOLEAN, t \in TutorIds, ty \in COURSE_TYPE_CHOICES :
           StartCourse(p, atomic, t, ty)
    \/ \E p \in Procs : Query(p)
    \/ \E p \in Procs : Get(p)
    \/ \E p \in Procs : Create(p)
    \/ \E p \in Procs : Finish(p)
    \/ \E p \in Procs : Return(p)

SpecConcurrent == InitConcurrent /\ [][NextConcurrent]_vars

\* The same two connections, with receivers whose statements may raise.
NextFaulty ==
    \/ \E p \in Procs, atomic \in BOOLEAN, t \in TutorIds : StartStudent(p, atomic, t)
    \/ \E p \in Procs, atomic \in BOOLEAN, t \in TutorIds, ty \in COURSE_TYPE_CHOICES :
           StartCourse(p, atomic, t, ty)
    \/ \E p \in Procs : Query(p)
    \/ \E p \in Procs : Get(p)
    \/ \E p \in Procs : Create(p)
    \/ \E p \in Procs : Fail(p)
    \/ \E p \in Procs : Finish(p)
    \/ \E p \in Procs : Return(p)

SpecFaulty == InitConcurrent /\ [][NextFaulty]_vars

\* The accounts that work in the admin: the superuser and the Tutors' users.
Staff == {SuperUser} \cup {t.user : t \in tutors}

\* The admin's Student forms, from a store with the superuser and one Tutor.
InitForms ==
    /\ users = {SuperUser, 2}
    /\ auth_user = {[id |-> SuperUser, username |-> "admin",
                     email |-> [local |-> "root", domain |-> "x.org"]],
                    [id |-> 2, username |-> "ana",
                     email |-> [local |-> "a", domain |-> "x.org"]]}
    /\ tutors = {[id |-> 1, user |-> 2]}
    /\ students = {}
    /\ courses = {}
    /\ enrollments = {}
    /\ seq = [user |-> 3, tutor |-> 2, student |-> 1, course |-> 1, enrollment |-> 1]
    /\ result = NoResult
    /\ txn = [p \in Procs |-> Idle]
    /\ readonly_fields = EnrollmentAdmin_readonly_fields

NextForms ==
    \/ \E a \in Staff, t \in TutorIds \cup {None}, form \in CreationForms :
           StudentCreationFormSubmit(a, t, form)
    \/ \E a \in Staff, pk \in StudentIds, t \in TutorIds, email \in Emails :
           StudentChangeFormSubmit(a, pk, t, email)

SpecForms == InitForms /\ [][NextForms]_vars

\* The creations of the admin and the delete view of StudentAdmin.
NextStudentDelete ==
    \/ CreateUser
    \/ \E a \in users, u \in users : TutorAdminSave(a, None, u)
    \/ \E a \in users, t \in TutorIds \cup {None} : StudentAdminCreate(a, t)
    \/ \E a \in users, t \in TutorIds \cup {None}, ty \in COURSE_TYPE_CHOICES :
           CourseAdminCreate(a, t, ty)
    \/ \E a \in users, pk \in StudentIds, has_perm \in BOOLEAN :
           StudentAdminDelete(a, pk, has_perm)

SpecStudentDelete == Init /\ [][NextStudentDelete]_vars

\* The committed operations that make and edit Students and Courses and
\* that add Enrollments by hand: the admin site without the edit of an
\* existing Enrollment.
NextCommitted ==
    \/ CreateUser
    \/ \E a \in users, pk \in TutorIds \cup {None}, u \in users : TutorAdminSave(a, pk, u)
    \/ \E a \in users, t \in TutorIds \cup {None} : StudentAdminCreate(a, t)
    \/ \E a \in users, pk \in StudentIds, t \in TutorIds : StudentAdminChange(a, pk, t)
    \/ \E a \in users, t \in TutorIds \cup {None}, ty \in COURSE_TYPE_CHOICES :
           CourseAdminCreate(a, t, ty)
    \/ \E a \in users, pk \in CourseIds, t \in TutorIds, ty \in COURSE_TYPE_CHOICES :
           CourseAdminChange(a, pk, t, ty)
    \/ \E a \in users, s \in StudentIds, c \in CourseIds, st \in STATUS_CHOICES :
           EnrollmentAdminSave(a, None, s, c, st)

SpecCommitted == Init /\ [][NextCommitted]_vars

\* ----------------------------------------------------------------- claims
PlainActors == {a \in users : ~is_superuser(a)}
TutorActors == {a \in PlainActors : HasTutor(a)}

\* The ownership predicate: the rows of an entity owned by the Tutor row of
\* actor a (nothing when a has no Tutor row).
Owned(a, entity) ==
    LET mine == {t \in tutors : t.user = a}
    IN  CASE entity = "Tutor" -> mine
          [] entity = "Student" -> {s \in students : \E t \in mine : s.created_by = t.id}
          [] entity = "Course" -> {c \in courses : \E t \in mine : c.tutor = t.id}
          [] entity = "Enrollment" ->
                {e \in enrollments : \E t \in mine : CourseRow(e.course).tutor = t.id}

\* C1: every account backs at most one role row (Tutor rows + Student rows
\* of the account <= 1), in every state reached through the save paths.
C1_AtMostOneRole ==
    \A u \in users :
        Cardinality({t \in tutors : t.user = u})
            + Cardinality({st \in students : st.user = u}) <= 1

\* C2: every save of a Student row (creation or update) on an account that
\* backs a Tutor row ends in RoleConflict and leaves the Student table as it
\* was.
C2_StudentSaveRejected ==
    [][\A pk \in StudentIds \cup {None}, u \in users, t \in TutorIds :
          (StudentSave(pk, u, t) /\ HasTutor(u))
              => (result'.outcome = "RoleConflict" /\ students' = students)]_vars

\* C2, the part the code keeps: saving an existing Student row whose account
\* backs a Tutor row ends in RoleConflict and changes nothing.
C2_StudentUpdateRejected ==
    [][\A pk \in StudentIds, u \in users, t \in TutorIds :
          (StudentSave(pk, u, t) /\ HasTutor(u))
              => (result'.outcome = "RoleConflict" /\ UNCHANGED store)]_vars

\* C3: every save of a Tutor row on an account that backs a Student row
\* ends in RoleConflict (through the admin: in an error) and persists no
\* Tutor row. In every state Tutor.save answers RoleConflict for each such
\* account, and a Tutor save that ends in an error leaves the store as it
\* was.
C3_TutorSaveRejected ==
    /\ [](\A u \in users : HasStudent(u) =>
              \A pk \in TutorIds \cup {None} :
                  /\ Tutor_save_outcome(pk, u) = "RoleConflict"
                  /\ \A a \in users : TutorAdmin_save_outcome(a, pk, u) # "ok")
    /\ [][(/\ result'.op \in {"TutorSave", "TutorAdminSave"}
           /\ result'.outcome # "ok") => UNCHANGED store]_vars

C3_Witness ==
    /\ result = [op |-> "TutorSave", outcome |-> "RoleConflict"]
    /\ \E st \in students : ~HasTutor(st.user)

\* C4: a non-privileged actor with Tutor row T sees exactly the Students
\* with created_by = T and exactly the Tutor row T.
C4_TutorSeesOwnStudents ==
    \A a \in TutorActors :
        /\ list_visible(a, "Student").rows = Owned(a, "Student")
        /\ list_visible(a, "Tutor").rows = Owned(a, "Tutor")
        /\ Cardinality(Owned(a, "Tutor")) = 1

C4_Witness ==
    \E a \in TutorActors :
        /\ Owned(a, "Student") # {}
        /\ students \ Owned(a, "Student") # {}
        /\ tutors \ Owned(a, "Tutor") # {}

\* C5: a non-privileged actor with Tutor row T sees exactly the Courses with
\* tutor = T and exactly the Enrollments whose Course has tutor = T.
C5_TutorSeesOwnCourses ==
    \A a \in TutorActors :
        /\ list_visible(a, "Course").rows = Owned(a, "Course")
        /\ list_visible(a, "Enrollment").rows = Owned(a, "Enrollment")

C5_Witness ==
    \E a \in TutorActors :
        /\ Owned(a, "Course") # {}
        /\ courses \ Owned(a, "Course") # {}
        /\ Owned(a, "Enrollment") # {}
        /\ \E e \in enrollments \ Owned(a, "Enrollment") :
               StudentRow(e.student) \in Owned(a, "Student")

\* C6: an actor that is neither privileged nor backed by a Tutor row gets
\* the empty collection for each of the four entity types, without error.
C6_NoRoleSeesNothing ==
    \A a \in PlainActors \ TutorActors : \A entity \in EntityTypes :
        list_visible(a, entity) = [error |-> "none", rows |-> {}]

C6_Witness ==
    /\ PlainActors \ TutorActors # {}
    /\ tutors # {} /\ students # {} /\ courses # {} /\ enrollments # {}

\* C7: for a non-privileged actor, get_by_id gives the row iff the row is
\* one the actor owns, and NotFound otherwise: the answer depends on the
\* owned rows only, so an id outside the scope and an id that does not
\* exist are answered alike.
C7_GetByIdScoped ==
    \A a \in PlainActors : \A entity \in EntityTypes :
        \A id \in 1..(MaxUsers + MaxEnrollments) :
            get_by_id(a, entity, id) =
                IF \E r \in Owned(a, entity) : r.id = id
                    THEN [outcome |-> "ok",
                          row |-> CHOOSE r \in Owned(a, entity) : r.id = id]
                ELSE [outcome |-> "NotFound", row |-> None]

C7_Witness ==
    \E a \in TutorActors :
        /\ \E st \in students : get_by_id(a, "Student", st.id).outcome = "ok"
        /\ \E st \in students : get_by_id(a, "Student", st.id).outcome = "NotFound"
        /\ \E c \in courses : get_by_id(a, "Course", c.id).outcome = "NotFound"
        /\ get_by_id(a, "Student", seq.student).outcome = "NotFound"

\* C8: an Enrollment save by a non-privileged Tutor actor with a Course of
\* another tutor, or a Student created by another tutor, ends in
\* OwnershipViolation: no Enrollment row is added or changed and neither
\* the Course's tutor nor the Student's created_by changes. In every state
\* the validation of save_model answers OwnershipViolation to each such
\* request, and a save that ends so leaves the store as it was.
C8_ForeignEnrollmentRejected ==
    /\ [](\A a \in TutorActors, st \in students, c \in courses :
              (c \notin Owned(a, "Course") \/ st \notin Owned(a, "Student"))
                  => EnrollmentAdmin_validate(a, st.id, c.id) = "OwnershipViolation")
    /\ [][(/\ result'.op = "EnrollmentAdminSave"
           /\ result'.outcome = "OwnershipViolation") => UNCHANGED store]_vars

C8_Witness ==
    /\ result = [op |-> "EnrollmentAdminSave", outcome |-> "OwnershipViolation"]
    /\ \E a \in TutorActors :
           /\ Owned(a, "Course") # {}
           /\ students \ Owned(a, "Student") # {}
           /\ Owned(a, "Enrollment") # {}

C11_DemoCourseCoverage ==
    \A c \in courses, st \in students :
        (c.course_type = "demo" /\ st.created_by = c.tutor)
            => Cardinality(EnrollmentsOf(enrollments, st.id, c.id)) = 1

\* C12: in every state there is at most one Enrollment row per (student,
\* course) pair, whether the rows came from the Course receiver, the
\* Student receiver or EnrollmentAdmin.save_model.
C12_OneEnrollmentPerPair ==
    \A st \in students, c \in courses :
        Cardinality(EnrollmentsOf(enrollments, st.id, c.id)) <= 1

C12_Witness ==
    /\ result = [op |-> "EnrollmentAdminSave", outcome |-> "IntegrityError"]
    /\ \E e \in enrollments :
           /\ CourseRow(e.course).course_type = "demo"
           /\ StudentRow(e.student).created_by = CourseRow(e.course).tutor
    /\ \E e \in enrollments : CourseRow(e.course).course_type # "demo"

\* C13: when two requests both get_or_create the Enrollment of the same
\* (student, course) pair, with their lookups and inserts interleaved in
\* any order, exactly one Enrollment row of the pair is stored once both
\* have finished.
C13_RaceLeavesOneRow ==
    (txn[1].pc = "done" /\ txn[2].pc = "done")
        => \A pair \in txn[1].tried \cap txn[2].tried :
               Cardinality(EnrollmentsOf(enrollments, pair[1], pair[2])) = 1

\* Both requests tried the same pair, and one had its insert refused after
\* its own lookup had found nothing.
C13_Witness ==
    /\ txn[1].pc = "done"
    /\ txn[2].pc = "done"
    /\ txn[1].tried \cap txn[2].tried # {}
    /\ txn[1].refused \cup txn[2].refused # {}

\* C14: when a Student creation and a demo Course creation of the same
\* tutor run side by side, each in its own atomic block, then after both
\* have committed exactly one Enrollment (S, C) exists, whatever the
\* interleaving.
C14_ConcurrentCreationsEnrolled ==
    \A p \in Procs, q \in Procs :
        (/\ txn[p].pc = "done" /\ txn[p].atomic /\ txn[p].op = "Student"
         /\ txn[q].pc = "done" /\ txn[q].atomic /\ txn[q].op = "Course")
            => \A st \in txn[p].row, c \in txn[q].row :
                   (c.course_type = "demo" /\ st.created_by = c.tutor)
                       => Cardinality(EnrollmentsOf(enrollments, st.id, c.id)) = 1

\* C15: applying either receiver a second time, with nothing else changed,
\* leaves the Enrollment table as the first application left it (same rows,
\* same count), for every Course and every Student of every state.
C15_ReceiversIdempotent ==
    /\ \A c \in courses :
           LET once == auto_enroll_students_in_demo_courses(
                           c, TRUE, students, enrollments, seq.enrollment)
               twice == auto_enroll_students_in_demo_courses(
                            c, TRUE, students, once.enrollments, once.next)
           IN  /\ twice.enrollments = once.enrollments
               /\ Cardinality(twice.enrollments) = Cardinality(once.enrollments)
    /\ \A st \in students :
           LET once == auto_enroll_new_student_in_demos(
                           st, TRUE, courses, enrollments, seq.enrollment)
               twice == auto_enroll_new_student_in_demos(
                            st, TRUE, courses, once.enrollments, once.next)
           IN  /\ twice.enrollments = once.enrollments
               /\ Cardinality(twice.enrollments) = Cardinality(once.enrollments)

\* A state where the first application of each receiver adds a row.
C15_Witness ==
    /\ \E c \in courses :
           auto_enroll_students_in_demo_courses(
               c, TRUE, students, enrollments, seq.enrollment).enrollments # enrollments
    /\ \E st \in students :
           auto_enroll_new_student_in_demos(
               st, TRUE, courses, enrollments, seq.enrollment).enrollments # enrollments

\* C16: the Student creation of the admin is atomic. When it ends in an
\* error (no created_by from a superuser, no Tutor row of the actor, a
\* refused Student save) the account it made is gone with it and the store
\* is as before; when it succeeds, the one new account has its Student row.
C16_CreateStudentAtomic ==
    [][result'.op = "StudentAdminCreate"
          => IF result'.outcome = "ok"
                THEN \E u \in users' \ users :
                         /\ users' = users \cup {u}
                         /\ \E st \in students' \ students :
                                st.user = u /\ students' = students \cup {st}
             ELSE UNCHANGED store]_vars

C16_Witness ==
    /\ result = [op |-> "StudentAdminCreate", outcome |-> "NoTutorProfile"]
    /\ \E st \in students : st.user = seq.user - 1

\* C17: a Student creation by the superuser without created_by ends in
\* MissingAssignment and persists no Student row (nor anything else).
C17_SuperuserNeedsCreatedBy ==
    [][StudentAdminCreate(SuperUser, None)
          => (result'.outcome = "MissingAssignment" /\ UNCHANGED store)]_vars

C17_Witness ==
    /\ result = [op |-> "StudentAdminCreate", outcome |-> "MissingAssignment"]
    /\ tutors # {}
    /\ students # {}

\* C18: a Course creation by the superuser without a tutor ends in
\* MissingAssignment and persists no Course row; with a tutor, the one new
\* Course is owned by exactly that tutor.
C18_SuperuserNeedsTutor ==
    [][\A ty \in COURSE_TYPE_CHOICES :
          /\ CourseAdminCreate(SuperUser, None, ty)
                => (result'.outcome = "MissingAssignment" /\ UNCHANGED store)
          /\ \A t \in TutorIds :
                CourseAdminCreate(SuperUser, t, ty)
                    => /\ result'.outcome = "ok"
                       /\ \E c \in courses' \ courses :
                              /\ courses' = courses \cup {c}
                              /\ c.tutor = t]_vars

C18_Witness ==
    /\ result = [op |-> "CourseAdminCreate", outcome |-> "MissingAssignment"]
    /\ \E c \in courses, t \in tutors : c.tutor # t.id

\* C19: a Course or Student creation by a non-superuser persists the
\* actor's own Tutor row as the owner (Course.tutor, Student.created_by),
\* whatever tutor the request names; an actor without a Tutor row gets an
\* error and nothing is persisted.
C19_OwnerIsActorsTutor ==
    [][\A a \in PlainActors, t \in TutorIds \cup {None} :
          /\ StudentAdminCreate(a, t)
                => IF HasTutor(a)
                      THEN /\ result'.outcome = "ok"
                           /\ \E st \in students' \ students :
                                  /\ students' = students \cup {st}
                                  /\ st.created_by = RequestUserTutor(a)
                   ELSE result'.outcome # "ok" /\ UNCHANGED store
          /\ \A ty \in COURSE_TYPE_CHOICES :
                CourseAdminCreate(a, t, ty)
                    => IF HasTutor(a)
                          THEN /\ result'.outcome = "ok"
                               /\ \E c \in courses' \ courses :
                                      /\ courses' = courses \cup {c}
                                      /\ c.tutor = RequestUserTutor(a)
                       ELSE result'.outcome # "ok" /\ UNCHANGED store]_vars

\* Two tutors; the last Course made belongs to the second tutor's own
\* account while a Course of the first exists, and so for the Students.
C19_Witness ==
    /\ result = [op |-> "CourseAdminCreate", outcome |-> "ok"]
    /\ \E a \in TutorActors, c \in courses :
           /\ c.id = seq.course - 1
           /\ c.tutor = RequestUserTutor(a)
           /\ \E c2 \in courses : c2.tutor # c.tutor
           /\ \E st \in students : st.created_by = c.tutor
           /\ \E st \in students : st.created_by # c.tutor

\* C20: deleting a Tutor that is the created_by of at least one Student
\* fails and leaves the store as it was: the Tutor, its Students, its
\* Courses and their Enrollments are all still there.
C20_ProtectedTutorStays ==
    [][\A pk \in TutorIds :
          (TutorDelete(pk) /\ \E st \in students : st.created_by = pk)
              => (result'.outcome = "ProtectedError" /\ UNCHANGED store)]_vars

C20_Witness ==
    /\ result = [op |-> "TutorDelete", outcome |-> "ProtectedError"]
    /\ \E t \in tutors :
           /\ \E st \in students : st.created_by = t.id
           /\ \E c \in courses : c.tutor = t.id
           /\ \E e \in enrollments : CourseRow(e.course).tutor = t.id
    /\ Cardinality(tutors) = 1
    /\ seq.tutor > 2

\* C21: deleting a Tutor that no Student references succeeds and removes
\* the Tutor and every Course it owns, the Courses of other tutors stay as
\* they are, and in every state each Course references a Tutor that exists.
C21_UnreferencedTutorCascades ==
    /\ [](\A c \in courses : c.tutor \in TutorIds)
    /\ [][\A pk \in TutorIds :
             (TutorDelete(pk) /\ ~\E st \in students : st.created_by = pk)
                 => /\ result'.outcome = "ok"
                    /\ tutors' = {t \in tutors : t.id # pk}
                    /\ courses' = {c \in courses : c.tutor # pk}
                    /\ UNCHANGED <<users, students>>]_vars

\* A Tutor has just been deleted with a Course of its own, and a Course of
\* another tutor is still there.
C21_Witness ==
    /\ result = [op |-> "TutorDelete", outcome |-> "ok"]
    /\ \E id \in 1..(seq.course - 1) : id \notin CourseIds
    /\ courses # {}

\* C22: when the receiver's pass of a Course or Student creation raises,
\* the exception stays in the handler: the request ends without error and
\* its primary row is stored.
C22_ReceiverFailureSwallowed ==
    \A p \in Procs :
        (txn[p].pc = "done" /\ txn[p].raised)
            => /\ txn[p].error = "none"
               /\ txn[p].row \subseteq students \cup courses

\* A Student creation and a demo Course creation have both ended after
\* their receivers raised, one of them inside an atomic block.
C22_Witness ==
    \E p \in Procs, q \in Procs :
        /\ txn[p].pc = "done" /\ txn[p].raised /\ txn[p].op = "Student"
        /\ txn[q].pc = "done" /\ txn[q].raised /\ txn[q].op = "Course"
        /\ txn[p].atomic
        /\ ~txn[q].atomic

C30_EmailsStayUnique ==
    \A a \in auth_user, b \in auth_user : a.email = b.email => a.id = b.id

C25_StudentEditKeepsCreatedBy ==
    [][result'.op = "StudentAdminChange" => students' = students]_vars

\* C26: the read-only fields of an Enrollment request contain status
\* exactly when a non-superuser edits an existing Enrollment, in every state
\* the serving process can be in.
C26_StatusReadonlyOnlyForTutorEdit ==
    \A actor \in users, change \in BOOLEAN :
        "status" \in EnrollmentAdmin_get_readonly_fields(readonly_fields, actor, change)
            <=> (change /\ ~is_superuser(actor))

\* C27: no step of StudentAdmin taken by a non-superuser removes a Student
\* row.
C27_TutorCannotDeleteStudent ==
    [][(result'.op = "StudentAdminDelete" /\ ~is_superuser(result'.actor))
          => students' = students]_vars

\* C28: every Enrollment that a non-superuser sees references a Student and
\* a Course that the same actor sees.
C28_VisibleEnrollmentsOfVisibleRows ==
    \A a \in users \ {SuperUser} :
        \A e \in EnrollmentAdmin_get_queryset(a).rows :
            /\ e.student \in {st.id : st \in StudentAdmin_get_queryset(a).rows}
            /\ e.course \in {c.id : c \in CourseAdmin_get_queryset(a).rows}

\* C29: a receiver that runs over (student, course) pairs that have their
\* Enrollment leaves every stored Enrollment row as it is, its status
\* included, for every Course and every Student of every state.
C29_ExistingEnrollmentUntouched ==
    /\ \A c \in courses :
           enrollments \subseteq
               auto_enroll_students_in_demo_courses(
                   c, TRUE, students, enrollments, seq.enrollment).enrollments
    /\ \A st \in students :
           enrollments \subseteq
               auto_enroll_new_student_in_demos(
                   st, TRUE, courses, enrollments, seq.enrollment).enrollments

\* A completed Enrollment of a Student in a demo Course of the tutor that
\* created it: both receivers come across the pair.
C29_Witness ==
    \E e \in enrollments :
        /\ e.status = "completed"
        /\ is_demo(CourseRow(e.course))
        /\ StudentRow(e.student).created_by = CourseRow(e.course).tutor

====
